---- MODULE Spec2Model ----
(***************************************************************************)
(* Model of the ISM analysis engine (services/ismLogic): the relation      *)
(* encoder convertSSIMToIRM, the closure computeFinalReachabilityMatrix,   *)
(* the level partitioner performLevelPartitioning, the canonicalizer       *)
(* getCanonicalMatrix and the orchestrator runISMAnalysis.                 *)
(*                                                                         *)
(* Matrices are functions over 0..size-1 as in the code (0-based).  The    *)
(* identifier list is a TLA+ sequence (1-based), read through IdAt.  The   *)
(* relation lookup is a two-level partial map: a function whose domain is  *)
(* the set of outer keys, each mapped to a function whose domain is the    *)
(* set of inner keys.                                                      *)
(***************************************************************************)
EXTENDS Integers, Sequences, FiniteSets, TLC

VARIABLES
    size,               \* runISMAnalysis argument: element count N
    ids,                \* runISMAnalysis argument: identifier list
    ssim,               \* runISMAnalysis argument: relation lookup
    pc,                 \* position inside runISMAnalysis
    errorLogged,        \* console.error was called for an ids/size mismatch
    irm,                \* const irm
    frm,                \* const frm
    remainingElements,  \* performLevelPartitioning: the Set, in iteration order
    levels,             \* performLevelPartitioning: levels
    currentLevel,       \* performLevelPartitioning: currentLevel
    canonicalMatrix,    \* const canonicalMatrix
    result,             \* the bundle returned by the current invocation
    lastResult,         \* the bundle returned by the previous invocation
    lastSsim,           \* the lookup the previous invocation was given
    step,               \* App state: step
    topic,              \* App state: topic
    factors,            \* App state: factors, each an id and a name
    dialog,             \* the confirm dialog resetApp is in, and its answer
    links,              \* HierarchyGraph: Null, or the links pushed by the effect
    quadrants,          \* MicmacAnalysis: the quadrants
    suggestion,         \* the promise of the last suggestRelationship call
    apiKey              \* process.env.API_KEY is set

\* In the application, ssim and result are the App state of those names and
\* the other variables of the analysis keep their values: the application
\* calls runISMAnalysis within one handler.
appVars == <<step, topic, factors, dialog, links, quadrants,
             suggestion, apiKey>>

engineVars == <<size, ids, pc, errorLogged, irm, frm, remainingElements,
                levels, currentLevel, canonicalMatrix, lastResult, lastSsim>>

vars == <<size, ids, ssim, pc, errorLogged, irm, frm, remainingElements,
          levels, currentLevel, canonicalMatrix, result, lastResult, lastSsim,
          step, topic, factors, dialog, links, quadrants, suggestion,
          apiKey>>

----------------------------------------------------------------------------
(* Bounds *)

MaxN == 3          \* largest element count of the well-formed runs
MatrixN == 3       \* largest size of the arbitrary matrices
LookupN == 2       \* largest element count of the arbitrary-lookup runs
MaxEntries == 1    \* most judgments stored in an arbitrary lookup at the first call
AppN == 2          \* most factors the list is grown to by adding
MaxJudgments == 1  \* most judgments the application's relation table holds

----------------------------------------------------------------------------
(* Values *)

\* enum SSIMValue
SSIMValue == {"V", "A", "X", "O"}

\* what a lookup may hold at run time: a judgment, a string that is no
\* judgment ("Z"), or the empty string (falsy)
StoredValue == SSIMValue \cup {"Z", ""}

\* "no bundle": the value of result before the first return
Null == [null |-> TRUE]

\* identifiers of the well-formed runs, in list order
IdPool == <<"f1", "f2", "f3", "f4", "f5">>

\* identifiers of the arbitrary-lookup runs
LookupIds == {"f1", "f2"}

Idx(n) == 0 .. (n - 1)

\* Array.from({ length: size }, () => Array(size).fill(0))
ZeroMatrix(n) == CHOOSE matrix \in [Idx(n) -> [Idx(n) -> {0}]] : TRUE

\* ids[i]: an index past the end of the list reads undefined, which as a
\* property key is the string "undefined"
IdAt(list, i) == IF i + 1 \in DOMAIN list THEN list[i + 1] ELSE "undefined"

----------------------------------------------------------------------------
(* convertSSIMToIRM *)

\* Relation, falling back to the judgment stored under the reversed key pair
RelationEitherKey(lookup, idI, idJ) ==
    IF idI \in DOMAIN lookup /\ idJ \in DOMAIN lookup[idI] /\ lookup[idI][idJ] # ""
    THEN lookup[idI][idJ]
    ELSE IF idJ \in DOMAIN lookup /\ idI \in DOMAIN lookup[idJ] /\ lookup[idJ][idI] # ""
         THEN lookup[idJ][idI]
         ELSE "O"

\* ssim[idI]?.[idJ] || SSIMValue.O
Relation(lookup, idI, idJ) ==
    IF idI \in DOMAIN lookup
    THEN IF idJ \in DOMAIN lookup[idI]
         THEN IF lookup[idI][idJ] = "" THEN "O" ELSE lookup[idI][idJ]
         ELSE "O"
    ELSE "O"

\* EncodePair with the V and A branches exchanged
EncodePairSwapped(matrix, i, j, val) ==
    IF val = "A" THEN [matrix EXCEPT ![i][j] = 1, ![j][i] = 0]
    ELSE IF val = "V" THEN [matrix EXCEPT ![i][j] = 0, ![j][i] = 1]
    ELSE IF val = "X" THEN [matrix EXCEPT ![i][j] = 1, ![j][i] = 1]
    ELSE [matrix EXCEPT ![i][j] = 0, ![j][i] = 0]

\* EncodePair testing for O and leaving X as the default branch
EncodePairDefaultX(matrix, i, j, val) ==
    IF val = "V" THEN [matrix EXCEPT ![i][j] = 1, ![j][i] = 0]
    ELSE IF val = "A" THEN [matrix EXCEPT ![i][j] = 0, ![j][i] = 1]
    ELSE IF val = "O" THEN [matrix EXCEPT ![i][j] = 0, ![j][i] = 0]
    ELSE [matrix EXCEPT ![i][j] = 1, ![j][i] = 1]

\* the if / else-if chain on val
EncodePair(matrix, i, j, val) ==
    IF val = "V" THEN [matrix EXCEPT ![i][j] = 1, ![j][i] = 0]
    ELSE IF val = "A" THEN [matrix EXCEPT ![i][j] = 0, ![j][i] = 1]
    ELSE IF val = "X" THEN [matrix EXCEPT ![i][j] = 1, ![j][i] = 1]
    ELSE [matrix EXCEPT ![i][j] = 0, ![j][i] = 0]

\* first j of the inner loop: for (let j = i + 1; ...)
InnerStart(i) == i + 1

\* the inner loop, from j on
RECURSIVE ConvertRow(_, _, _, _, _, _)
ConvertRow(matrix, n, list, lookup, i, j) ==
    IF j >= n THEN matrix
    ELSE ConvertRow(EncodePair(matrix, i, j,
                               Relation(lookup, IdAt(list, i), IdAt(list, j))),
                    n, list, lookup, i, j + 1)

\* SetDiagonal left out
SetDiagonalNone(matrix, i) == matrix

\* matrix[i][i] = 1
SetDiagonal(matrix, i) == [matrix EXCEPT ![i][i] = 1]

\* the outer loop, from i on
RECURSIVE ConvertFrom(_, _, _, _, _)
ConvertFrom(matrix, n, list, lookup, i) ==
    IF i >= n THEN matrix
    ELSE ConvertFrom(ConvertRow(SetDiagonal(matrix, i), n, list, lookup,
                                i, InnerStart(i)),
                     n, list, lookup, i + 1)

convertSSIMToIRM(n, list, lookup) ==
    ConvertFrom(ZeroMatrix(n), n, list, lookup, 0)

----------------------------------------------------------------------------
(* computeFinalReachabilityMatrix *)

\* ClosureCell reading matrix[k][i] for matrix[i][k]
ClosureCellSwapped(matrix, k, i, j) ==
    IF matrix[k][i] = 1 /\ matrix[k][j] = 1
    THEN [matrix EXCEPT ![i][j] = 1]
    ELSE matrix

\* ClosureCell assigning the test's outcome instead of only setting 1
ClosureCellOverwrite(matrix, k, i, j) ==
    [matrix EXCEPT ![i][j] = IF matrix[i][k] = 1 /\ matrix[k][j] = 1
                             THEN 1 ELSE 0]

\* the body of the innermost loop
ClosureCell(matrix, k, i, j) ==
    IF matrix[i][k] = 1 /\ matrix[k][j] = 1
    THEN [matrix EXCEPT ![i][j] = 1]
    ELSE matrix

\* ClosureRounds with no round at all: the matrix is returned as copied
ClosureRoundsNone(n) == 0

\* ClosureRounds stopping one short: k < size - 1
ClosureRoundsShort(n) == n - 1

\* number of values k takes: for (let k = 0; k < size; k++)
ClosureRounds(n) == n

\* matrix.length
Size(matrix) == Cardinality(DOMAIN matrix)

\* the j loop for one k and i, from j on
RECURSIVE ClosureRow(_, _, _, _)
ClosureRow(matrix, k, i, j) ==
    IF j >= Size(matrix) THEN matrix
    ELSE ClosureRow(ClosureCell(matrix, k, i, j), k, i, j + 1)

\* the i loop for one k, from i on
RECURSIVE ClosureRound(_, _, _)
ClosureRound(matrix, k, i) ==
    IF i >= Size(matrix) THEN matrix
    ELSE ClosureRound(ClosureRow(matrix, k, i, 0), k, i + 1)

\* the k loop, from k on
RECURSIVE ClosureFrom(_, _)
ClosureFrom(matrix, k) ==
    IF k >= ClosureRounds(Size(matrix)) THEN matrix
    ELSE ClosureFrom(ClosureRound(matrix, k, 0), k + 1)

\* size = irm.length; matrix = deep copy of irm; the three nested loops
computeFinalReachabilityMatrix(m) == ClosureFrom(m, 0)

----------------------------------------------------------------------------
(* performLevelPartitioning *)

\* array.includes(x)
Includes(seq, x) == \E n \in DOMAIN seq : seq[n] = x

\* Reachability set R(i) over the remaining elements, in iteration order
Reachable(m, remaining, i) == SelectSeq(remaining, LAMBDA j : m[i][j] = 1)

\* Antecedent set A(i) over the remaining elements, in iteration order
Antecedent(m, remaining, i) == SelectSeq(remaining, LAMBDA j : m[j][i] = 1)

\* reachable.filter((x) => antecedent.includes(x))
Intersection(m, remaining, i) ==
    SelectSeq(Reachable(m, remaining, i),
              LAMBDA x : Includes(Antecedent(m, remaining, i), x))

\* Qualifies comparing the antecedent set with the intersection
QualifiesAntecedent(m, remaining, i) ==
    Len(Antecedent(m, remaining, i)) = Len(Intersection(m, remaining, i))

\* Qualifies comparing the sizes of the reachability and antecedent sets
QualifiesSameSize(m, remaining, i) ==
    Len(Reachable(m, remaining, i)) = Len(Antecedent(m, remaining, i))

\* reachable.length === intersection.length
Qualifies(m, remaining, i) ==
    Len(Reachable(m, remaining, i)) = Len(Intersection(m, remaining, i))

\* CurrentLevelElements stopping at the first element that qualifies
CurrentLevelFirstOnly(m, remaining) ==
    SubSeq(SelectSeq(remaining, LAMBDA i : Qualifies(m, remaining, i)), 1, 1)

\* currentLevelElements after the forEach over the remaining elements
CurrentLevelElements(m, remaining) ==
    SelectSeq(remaining, LAMBDA i : Qualifies(m, remaining, i))

\* DeleteAll left out
DeleteNone(remaining, found) == remaining

\* DeleteAll removing only the first element found
DeleteFirst(remaining, found) ==
    SelectSeq(remaining, LAMBDA el : el # found[1])

\* remainingElements after currentLevelElements.forEach(el => delete(el))
DeleteAll(remaining, found) ==
    SelectSeq(remaining, LAMBDA el : ~Includes(found, el))

\* MAX_LEVELS = size + 5
MAX_LEVELS(n) == n + 5

\* InitialRemaining filled from the last index down
InitialRemainingDescending(n) == [p \in 1 .. n |-> n - p]

\* new Set(Array.from({ length: size }, (_, i) => i)), in insertion order
InitialRemaining(n) == [p \in 1 .. n |-> p - 1]

\* the while loop run to its end from one point of the partitioning
RECURSIVE PartitionLoop(_, _, _, _)
PartitionLoop(m, remaining, lv, cur) ==
    IF Len(remaining) = 0
    THEN lv
    ELSE LET found == CurrentLevelElements(m, remaining) IN
         IF Len(found) = 0
         THEN Append(lv, [level |-> cur, elements |-> remaining])
         ELSE IF cur + 1 > MAX_LEVELS(Size(m))
              THEN Append(lv, [level |-> cur, elements |-> found])
              ELSE PartitionLoop(m, DeleteAll(remaining, found),
                                 Append(lv, [level |-> cur, elements |-> found]),
                                 cur + 1)

\* the levels performLevelPartitioning returns for the matrix m
performLevelPartitioning(m) == PartitionLoop(m, InitialRemaining(Size(m)), <<>>, 1)

----------------------------------------------------------------------------
(* getCanonicalMatrix *)

\* HasIntermediate without the test that k is neither i nor j
HasIntermediateAnyK(m, n, i, j) ==
    \E k \in Idx(n) : m[i][k] = 1 /\ m[k][j] = 1

\* the k loop: some k other than i and j with frm[i][k] and frm[k][j]
HasIntermediate(m, n, i, j) ==
    \E k \in Idx(n) : k # i /\ k # j /\ m[i][k] = 1 /\ m[k][j] = 1

\* for (i) skeleton[i][i] = 0
RemoveSelfLoops(m, n) ==
    [i \in Idx(n) |-> [j \in Idx(n) |-> IF i = j THEN 0 ELSE m[i][j]]]

\* ReduceCell looking for the intermediate in the skeleton being reduced
ReduceCellOnSkeleton(skeleton, m, n, i, j) ==
    IF skeleton[i][j] = 1 /\ HasIntermediate(skeleton, n, i, j)
    THEN [skeleton EXCEPT ![i][j] = 0]
    ELSE skeleton

\* the body of the i / j loops for one pair
ReduceCell(skeleton, m, n, i, j) ==
    IF skeleton[i][j] = 1 /\ HasIntermediate(m, n, i, j)
    THEN [skeleton EXCEPT ![i][j] = 0]
    ELSE skeleton

\* the j loop for one i, from j on
RECURSIVE ReduceRow(_, _, _, _)
ReduceRow(skeleton, m, i, j) ==
    IF j >= Size(skeleton) THEN skeleton
    ELSE ReduceRow(ReduceCell(skeleton, m, Size(m), i, j), m, i, j + 1)

\* the i loop, from i on
RECURSIVE ReduceFrom(_, _, _)
ReduceFrom(skeleton, m, i) ==
    IF i >= Size(skeleton) THEN skeleton
    ELSE ReduceFrom(ReduceRow(skeleton, m, i, 0), m, i + 1)

\* size = frm.length; skeleton = copy of frm without self-loops; the loops
getCanonicalMatrix(m) == ReduceFrom(RemoveSelfLoops(m, Size(m)), m, 0)

----------------------------------------------------------------------------
(* Inputs *)

\* every n x n matrix of zeros and ones
BinaryMatrices(n) == [Idx(n) -> [Idx(n) -> {0, 1}]]

\* the keys a lookup can hold when positions without identifier are read
MismatchKeys == LookupIds \cup {"undefined"}

\* the first n identifiers of the pool: distinct, one per element
PoolIds(n) == SubSeq(IdPool, 1, n)

\* the key pairs (ids[i], ids[j]) with i < j
UpperKeys(n, list) ==
    {<<IdAt(list, p[1]), IdAt(list, p[2])>> :
        p \in {q \in Idx(n) \X Idx(n) : q[1] < q[2]}}

\* the two-level map holding exactly the judgments of the flat map f
\* (a function from key pairs to stored values)
Nest(f) ==
    [a \in {p[1] : p \in DOMAIN f} |->
        [b \in {p[2] : p \in {q \in DOMAIN f : q[1] = a}} |-> f[<<a, b>>]]]

\* lookups a caller that fills the upper triangle builds: a judgment or
\* nothing for each pair i < j, nothing else
RegularLookups(n, list) ==
    {Nest(f) : f \in UNION {[K -> SSIMValue] : K \in SUBSET UpperKeys(n, list)}}

\* every lookup over the key set keys holding at most MaxEntries values
ArbitraryLookups(keys) ==
    {Nest(f) : f \in UNION {[K -> StoredValue] :
        K \in {S \in SUBSET (keys \X keys) : Cardinality(S) <= MaxEntries}}}

\* identifier lists of the arbitrary-lookup runs: n identifiers, repeats
\* allowed
LookupLists(n) == [1 .. n -> LookupIds]

----------------------------------------------------------------------------
(* runISMAnalysis as a state machine *)

\* enum AppStep
AppStep == {"SETUP_TOPIC", "DEFINE_FACTORS", "FILL_SSIM", "ANALYSIS_RESULT"}

\* no confirm dialog is open
NoDialog == [kind |-> "none", answer |-> "none"]

\* suggestRelationship has not been called
NoSuggestion == [state |-> "none", value |-> ""]

\* the App as mounted: the useState initial values, nothing drawn, no dialog
AppIdle ==
    /\ step = "SETUP_TOPIC"
    /\ topic = ""
    /\ factors = <<>>
    /\ dialog = NoDialog
    /\ links = Null
    /\ quadrants = Null
    /\ suggestion = NoSuggestion

Idle ==
    /\ pc = "convert"
    /\ errorLogged = FALSE
    /\ irm = <<>>
    /\ frm = <<>>
    /\ remainingElements = <<>>
    /\ levels = <<>>
    /\ currentLevel = 0
    /\ canonicalMatrix = <<>>
    /\ result = Null
    /\ lastResult = Null
    /\ lastSsim = <<>>
    /\ AppIdle

\* a caller with one distinct identifier per element and judgments on the
\* upper triangle
Init ==
    /\ size \in 0 .. MaxN
    /\ ids = PoolIds(size)
    /\ ssim \in RegularLookups(size, ids)
    /\ Idle
    /\ apiKey = TRUE

\* any caller: any identifier list, any lookup
InitLookup ==
    /\ size \in 0 .. LookupN
    /\ ids \in LookupLists(size)
    /\ ssim \in ArbitraryLookups(LookupIds)
    /\ Idle
    /\ apiKey = TRUE

\* runISMAnalysis up to const irm = convertSSIMToIRM(size, ids, ssim)
Convert ==
    /\ pc = "convert"
    /\ errorLogged' = (Len(ids) # size)
    /\ irm' = convertSSIMToIRM(size, ids, ssim)
    /\ pc' = "closure"
    /\ UNCHANGED <<size, ids, ssim, frm, remainingElements, levels,
                   currentLevel, canonicalMatrix, result, lastResult, lastSsim>>
    /\ UNCHANGED appVars

\* Closure computing the closure in place, in the matrix it was handed
ClosureInPlace ==
    /\ pc = "closure"
    /\ frm' = computeFinalReachabilityMatrix(irm)
    /\ irm' = frm'
    /\ pc' = "partition"
    /\ UNCHANGED <<size, ids, ssim, errorLogged, remainingElements, levels,
                   currentLevel, canonicalMatrix, result, lastResult, lastSsim>>
    /\ UNCHANGED appVars

\* const frm = computeFinalReachabilityMatrix(irm)
Closure ==
    /\ pc = "closure"
    /\ frm' = computeFinalReachabilityMatrix(irm)
    /\ pc' = "partition"
    /\ UNCHANGED <<size, ids, ssim, errorLogged, irm, remainingElements, levels,
                   currentLevel, canonicalMatrix, result, lastResult, lastSsim>>
    /\ UNCHANGED appVars

\* PartitionEnter keeping the levels of the previous invocation
PartitionEnterStale ==
    /\ pc = "partition"
    /\ remainingElements' = InitialRemaining(Size(frm))
    /\ currentLevel' = 1
    /\ pc' = "while"
    /\ UNCHANGED <<size, ids, ssim, errorLogged, irm, frm, levels,
                   canonicalMatrix, result, lastResult, lastSsim>>
    /\ UNCHANGED appVars

\* performLevelPartitioning(frm) down to the while loop
PartitionEnter ==
    /\ pc = "partition"
    /\ remainingElements' = InitialRemaining(Size(frm))
    /\ levels' = <<>>
    /\ currentLevel' = 1
    /\ pc' = "while"
    /\ UNCHANGED <<size, ids, ssim, errorLogged, irm, frm, canonicalMatrix,
                   result, lastResult, lastSsim>>
    /\ UNCHANGED appVars

\* PartitionIteration leaving the loop without the fallback level
PartitionIterationNoFallback ==
    /\ pc = "while"
    /\ IF Len(remainingElements) = 0
       THEN /\ pc' = "canonical"
            /\ UNCHANGED <<remainingElements, levels, currentLevel>>
       ELSE LET found == CurrentLevelElements(frm, remainingElements) IN
            IF Len(found) = 0
            THEN /\ pc' = "canonical"
                 /\ UNCHANGED <<remainingElements, levels, currentLevel>>
            ELSE /\ levels' = Append(levels, [level |-> currentLevel,
                                               elements |-> found])
                 /\ remainingElements' = DeleteAll(remainingElements, found)
                 /\ currentLevel' = currentLevel + 1
                 /\ pc' = IF currentLevel + 1 > MAX_LEVELS(Size(frm))
                          THEN "canonical" ELSE "while"
    /\ UNCHANGED <<size, ids, ssim, errorLogged, irm, frm, canonicalMatrix,
                   result, lastResult, lastSsim>>
    /\ UNCHANGED appVars

\* one test of the while condition and, when it holds, one run of the body
PartitionIteration ==
    /\ pc = "while"
    /\ IF Len(remainingElements) = 0
       THEN /\ pc' = "canonical"
            /\ UNCHANGED <<remainingElements, levels, currentLevel>>
       ELSE LET found == CurrentLevelElements(frm, remainingElements) IN
            IF Len(found) = 0
            THEN /\ levels' = Append(levels, [level |-> currentLevel,
                                               elements |-> remainingElements])
                 /\ pc' = "canonical"
                 /\ UNCHANGED <<remainingElements, currentLevel>>
            ELSE /\ levels' = Append(levels, [level |-> currentLevel,
                                               elements |-> found])
                 /\ remainingElements' = DeleteAll(remainingElements, found)
                 /\ currentLevel' = currentLevel + 1
                 /\ pc' = IF currentLevel + 1 > MAX_LEVELS(Size(frm))
                          THEN "canonical" ELSE "while"
    /\ UNCHANGED <<size, ids, ssim, errorLogged, irm, frm, canonicalMatrix,
                   result, lastResult, lastSsim>>
    /\ UNCHANGED appVars

\* Canonical reducing the direct-edge matrix instead of the closure
CanonicalOfIrm ==
    /\ pc = "canonical"
    /\ canonicalMatrix' = getCanonicalMatrix(irm)
    /\ pc' = "return"
    /\ UNCHANGED <<size, ids, ssim, errorLogged, irm, frm, remainingElements,
                   levels, currentLevel, result, lastResult, lastSsim>>
    /\ UNCHANGED appVars

\* const canonicalMatrix = getCanonicalMatrix(frm)
Canonical ==
    /\ pc = "canonical"
    /\ canonicalMatrix' = getCanonicalMatrix(frm)
    /\ pc' = "return"
    /\ UNCHANGED <<size, ids, ssim, errorLogged, irm, frm, remainingElements,
                   levels, currentLevel, result, lastResult, lastSsim>>
    /\ UNCHANGED appVars

\* return { initialReachabilityMatrix, finalReachabilityMatrix, ... }
Return ==
    /\ pc = "return"
    /\ result' = [initialReachabilityMatrix |-> irm,
                  finalReachabilityMatrix |-> frm,
                  canonicalMatrix |-> canonicalMatrix,
                  levels |-> levels]
    /\ pc' = "done"
    /\ UNCHANGED <<size, ids, ssim, errorLogged, irm, frm, remainingElements,
                   levels, currentLevel, canonicalMatrix, lastResult, lastSsim>>
    /\ UNCHANGED appVars

\* the caller keeps the bundle and calls again with the lookup next
CallAgain(next) ==
    /\ pc = "done"
    /\ lastResult = Null
    /\ lastResult' = result
    /\ lastSsim' = ssim
    /\ ssim' = next
    /\ pc' = "convert"
    /\ UNCHANGED <<size, ids, errorLogged, irm, frm, remainingElements, levels,
                   currentLevel, canonicalMatrix, result>>
    /\ UNCHANGED appVars

\* a second invocation on the same inputs
Reinvoke == CallAgain(ssim)

\* what the lookup stores under (a, b); "absent" when either level is missing
StoredAt(lookup, a, b) ==
    IF a \in DOMAIN lookup
    THEN IF b \in DOMAIN lookup[a] THEN lookup[a][b] ELSE "absent"
    ELSE "absent"

\* the judgments of a two-level lookup as one map from key pairs to values
Flat(lookup) ==
    [p \in UNION {{<<a, b>> : b \in DOMAIN lookup[a]} : a \in DOMAIN lookup} |->
        lookup[p[1]][p[2]]]

\* the lookup after the caller stored v under the key pair p
SetJudgment(lookup, p, v) ==
    Nest([q \in DOMAIN Flat(lookup) \cup {p} |->
            IF q = p THEN v ELSE Flat(lookup)[q]])

\* the lookup after the caller removed the key pair p
RemoveJudgment(lookup, p) ==
    Nest([q \in DOMAIN Flat(lookup) \ {p} |-> Flat(lookup)[q]])

\* a second invocation after the caller set or removed one judgment
Relookup ==
    \E p \in LookupIds \X LookupIds :
        \/ /\ StoredAt(ssim, p[1], p[2]) # "absent"
           /\ CallAgain(RemoveJudgment(ssim, p))
        \/ \E v \in StoredValue :
              /\ StoredAt(ssim, p[1], p[2]) # v
              /\ CallAgain(SetJudgment(ssim, p, v))

\* a caller handing performLevelPartitioning and getCanonicalMatrix any
\* matrix of zeros and ones
InitMatrix ==
    /\ size \in 0 .. MatrixN
    /\ ids = <<>>
    /\ ssim = <<>>
    /\ errorLogged = FALSE
    /\ irm = <<>>
    /\ frm \in BinaryMatrices(size)
    /\ pc = "partition"
    /\ remainingElements = <<>>
    /\ levels = <<>>
    /\ currentLevel = 0
    /\ canonicalMatrix = <<>>
    /\ result = Null
    /\ lastResult = Null
    /\ lastSsim = <<>>
    /\ AppIdle
    /\ apiKey = TRUE

\* a caller whose identifier list is shorter or longer than the size
InitMismatch ==
    /\ size \in 0 .. LookupN
    /\ ids \in UNION {LookupLists(n) : n \in 0 .. LookupN}
    /\ Len(ids) # size
    /\ ssim \in ArbitraryLookups(MismatchKeys)
    /\ Idle
    /\ apiKey = TRUE

Next ==
    \/ Convert
    \/ Closure
    \/ PartitionEnter
    \/ PartitionIteration
    \/ Canonical
    \/ Return
    \/ Reinvoke

NextLookup ==
    \/ Next
    \/ Relookup

NextMatrix ==
    \/ PartitionEnter
    \/ PartitionIteration
    \/ Canonical

Spec == Init /\ [][Next]_vars

SpecLookup == InitLookup /\ [][NextLookup]_vars

SpecMatrix == InitMatrix /\ [][NextMatrix]_vars

SpecMismatch == InitMismatch /\ [][Next]_vars

----------------------------------------------------------------------------
(* The application: App, FactorInput, the SSIMGrid props, ResultsView,      *)
(* HierarchyGraph, MicmacAnalysis and suggestRelationship                   *)

\* what the topic input can hold: nothing, white space, a text
Topics == {"", " ", "t"}

\* topic.trim()
Trim(t) == IF t = " " THEN "" ELSE t

\* the topic loadSafetyTemplate sets
TemplateTopic == "Driving/Dependent Relationships of Factors of Confined Space Accidents"

\* the names a factor can be given in the add and edit forms
Names == {"a"}

\* PRESET_FACTORS cut to its first two factors: their names `F${i + 1}`
PRESET_FACTORS == <<"F1", "F2">>

\* `preset-${i}`
PresetId(i) == IF i = 0 THEN "preset-0" ELSE "preset-1"

\* loadedFactors
PresetFactors ==
    [p \in DOMAIN PRESET_FACTORS |-> [id |-> PresetId(p - 1), name |-> PRESET_FACTORS[p]]]

\* the identifiers crypto.randomUUID() returns
UuidPool == <<"u1">>

\* factors.map(f => f.id)
FactorIds(fs) == [p \in DOMAIN fs |-> fs[p].id]

\* the identifiers the state still holds: those of the factors and the keys
\* of the relation table
UsedIds(fs, lookup) ==
    {fs[p].id : p \in DOMAIN fs} \cup {q[1] : q \in DOMAIN Flat(lookup)}
        \cup {q[2] : q \in DOMAIN Flat(lookup)}

\* crypto.randomUUID(): an identifier the state holds nowhere
FreshIds(fs, lookup) ==
    LET free == {p \in DOMAIN UuidPool : UuidPool[p] \notin UsedIds(fs, lookup)}
    IN  IF free = {} THEN {}
        ELSE {UuidPool[CHOOSE p \in free : \A q \in free : p <= q]}

\* runISMAnalysis as one call: the bundle for n, the list and the lookup
runISMAnalysis(n, list, lookup) ==
    LET i == convertSSIMToIRM(n, list, lookup)
        f == computeFinalReachabilityMatrix(i)
    IN  [initialReachabilityMatrix |-> i,
         finalReachabilityMatrix |-> f,
         canonicalMatrix |-> getCanonicalMatrix(f),
         levels |-> performLevelPartitioning(f)]

\* nodes.find(n => n.id === i) finds a node
HasNode(lv, i) == \E n \in DOMAIN lv : Includes(lv[n].elements, i)

\* the level of the node nodes.find(n => n.id === i) returns: the first
NodeLevel(lv, i) ==
    lv[CHOOSE n \in DOMAIN lv :
          /\ Includes(lv[n].elements, i)
          /\ \A k \in DOMAIN lv : k < n => ~Includes(lv[k].elements, i)].level

\* the links HierarchyGraph pushes, as (source id, target id)
Links(res) ==
    LET matrix == res.initialReachabilityMatrix
        lv == res.levels
    IN  {l \in Idx(Size(matrix)) \X Idx(Size(matrix)) :
            /\ matrix[l[1]][l[2]] = 1
            /\ l[1] # l[2]
            /\ HasNode(lv, l[1])
            /\ HasNode(lv, l[2])
            /\ NodeLevel(lv, l[1]) - NodeLevel(lv, l[2]) \in {0, 1}}

\* values.reduce((sum, val) => sum + val, 0) over the first n values
RECURSIVE SumTo(_, _)
SumTo(values, n) == IF n = 0 THEN 0 ELSE SumTo(values, n - 1) + values[n - 1]

\* drivingPower: the sum of row i
DrivingPower(m, i) == SumTo(m[i], Size(m[i]))

\* dependencePower: the sum of column i
DependencePower(m, i) == SumTo([r \in Idx(Size(m)) |-> m[r][i]], Size(m))

\* QuadrantOf with the comparisons < and >=
QuadrantOfStrict(driving, dependence, n) ==
    IF 2 * driving < n /\ 2 * dependence < n THEN "autonomous"
    ELSE IF 2 * driving < n /\ 2 * dependence >= n THEN "dependent"
    ELSE IF 2 * driving >= n /\ 2 * dependence >= n THEN "linkage"
    ELSE "driver"

\* the if / else if chain, with splitPoint = n / 2 (p <= n / 2 is 2p <= n)
QuadrantOf(driving, dependence, n) ==
    IF 2 * driving <= n /\ 2 * dependence <= n THEN "autonomous"
    ELSE IF 2 * driving <= n /\ 2 * dependence > n THEN "dependent"
    ELSE IF 2 * driving > n /\ 2 * dependence > n THEN "linkage"
    ELSE "driver"

QuadrantNames == {"autonomous", "dependent", "linkage", "driver"}

\* data: for each factor its position and its two powers
Data(res, fs) ==
    [p \in 1 .. Len(fs) |->
        [index |-> p - 1,
         drivingPower |-> DrivingPower(res.finalReachabilityMatrix, p - 1),
         dependencePower |-> DependencePower(res.finalReachabilityMatrix, p - 1)]]

\* q: for each quadrant the data points pushed to it, in push order
Quadrants(res, fs) ==
    [q \in QuadrantNames |->
        SelectSeq(Data(res, fs),
                  LAMBDA d : QuadrantOf(d.drivingPower, d.dependencePower, Len(fs)) = q)]

\* what generateContent does: it throws, or it answers with no text, with
\* text that is no JSON, with an object without relation, or with a relation
Responses == {"throws", "empty", "invalid", "noField"} \cup SSIMValue \cup {""}

\* the promise suggestRelationship returns, settled
suggestRelationship(key, response) ==
    IF ~key
    THEN [state |-> "rejected", value |-> "API Key is missing."]
    ELSE IF response \in {"throws", "invalid"}
         THEN [state |-> "resolved", value |-> "O"]
         ELSE IF response \in {"empty", "noField", ""}
              THEN [state |-> "resolved", value |-> "O"]
              ELSE [state |-> "resolved", value |-> response]

\* the App as mounted, with or without an API key in the build
InitApp ==
    /\ AppIdle
    /\ apiKey \in BOOLEAN
    /\ size = 0
    /\ ids = <<>>
    /\ ssim = <<>>
    /\ Idle

\* the App showing the results of an analysis of up to MaxN factors with
\* judgments on the upper triangle
InitResults ==
    /\ \E n \in 0 .. MaxN :
          /\ factors = [p \in 1 .. n |-> [id |-> IdPool[p], name |-> "a"]]
          /\ ssim \in RegularLookups(n, PoolIds(n))
    /\ result = runISMAnalysis(Len(factors), FactorIds(factors), ssim)
    /\ step = "ANALYSIS_RESULT"
    /\ topic = "t"
    /\ dialog = NoDialog
    /\ links = Null
    /\ quadrants = Null
    /\ suggestion = NoSuggestion
    /\ apiKey = TRUE
    /\ size = 0
    /\ ids = <<>>
    /\ pc = "convert"
    /\ errorLogged = FALSE
    /\ irm = <<>>
    /\ frm = <<>>
    /\ remainingElements = <<>>
    /\ levels = <<>>
    /\ currentLevel = 0
    /\ canonicalMatrix = <<>>
    /\ lastResult = Null
    /\ lastSsim = <<>>

\* onChange of the topic input
SetTopic ==
    /\ step = "SETUP_TOPIC"
    /\ dialog = NoDialog
    /\ \E t \in Topics : topic' = t
    /\ UNCHANGED <<step, factors, dialog, links, quadrants, suggestion,
                   apiKey, ssim, result>>
    /\ UNCHANGED engineVars

startProject ==
    /\ step = "SETUP_TOPIC"
    /\ dialog = NoDialog
    /\ step' = IF Trim(topic) # "" THEN "DEFINE_FACTORS" ELSE step
    /\ UNCHANGED <<topic, factors, dialog, links, quadrants, suggestion,
                   apiKey, ssim, result>>
    /\ UNCHANGED engineVars

loadSafetyTemplate ==
    /\ step = "SETUP_TOPIC"
    /\ dialog = NoDialog
    /\ topic' = TemplateTopic
    /\ factors' = PresetFactors
    /\ ssim' = <<>>
    /\ result' = Null
    /\ step' = "DEFINE_FACTORS"
    /\ UNCHANGED <<dialog, links, quadrants, suggestion, apiKey>>
    /\ UNCHANGED engineVars

\* handleAddFactor with the form holding name ("" when a field is blank)
handleAddFactor ==
    /\ step = "DEFINE_FACTORS"
    /\ dialog = NoDialog
    /\ Len(factors) < AppN
    /\ \E name \in Names \cup {""} :
          IF name = ""
          THEN UNCHANGED factors
          ELSE \E id \in FreshIds(factors, ssim) :
                  factors' = Append(factors, [id |-> id, name |-> name])
    /\ UNCHANGED <<step, topic, dialog, links, quadrants, suggestion,
                   apiKey, ssim, result>>
    /\ UNCHANGED engineVars

\* handleDeleteFactor(id), with the answer confirm returns
handleDeleteFactor ==
    /\ step = "DEFINE_FACTORS"
    /\ dialog = NoDialog
    /\ \E p \in DOMAIN factors : \E ok \in BOOLEAN :
          factors' = IF ok
                     THEN SelectSeq(factors, LAMBDA f : f.id # factors[p].id)
                     ELSE factors
    /\ UNCHANGED <<step, topic, dialog, links, quadrants, suggestion, apiKey,
                   ssim, result>>
    /\ UNCHANGED engineVars

\* window.confirm returns: the user chose OK or Cancel
ConfirmReturns ==
    /\ dialog.answer = "open"
    /\ \E ok \in {"yes", "no"} : dialog' = [dialog EXCEPT !.answer = ok]
    /\ UNCHANGED <<step, topic, factors, links, quadrants, suggestion, apiKey,
                   ssim, result>>
    /\ UNCHANGED engineVars

\* startEdit(factor), a name typed into the form, saveEdit
saveEdit ==
    /\ step = "DEFINE_FACTORS"
    /\ dialog = NoDialog
    /\ \E p \in DOMAIN factors : \E name \in Names :
          factors' = [factors EXCEPT ![p].name = name]
    /\ UNCHANGED <<step, topic, dialog, links, quadrants, suggestion,
                   apiKey, ssim, result>>
    /\ UNCHANGED engineVars

\* goToSSIM: onNext of FactorInput and onBack of ResultsView, which is
\* rendered only while result is not null; leaving the results unmounts the
\* drawings
goToSSIM ==
    /\ \/ step = "DEFINE_FACTORS"
       \/ step = "ANALYSIS_RESULT" /\ result # Null
    /\ dialog = NoDialog
    /\ step' = "FILL_SSIM"
    /\ links' = Null
    /\ quadrants' = Null
    /\ UNCHANGED <<topic, factors, dialog, suggestion, apiKey, ssim, result>>
    /\ UNCHANGED engineVars

\* the grid, whose code is not in the repository, is handed ssim and setSsim:
\* it stores one judgment for a pair of factors i < j under their ids
setSsim ==
    /\ step = "FILL_SSIM"
    /\ dialog = NoDialog
    /\ \E i, j \in DOMAIN factors : \E v \in SSIMValue :
          /\ i < j
          /\ ssim' = SetJudgment(ssim, <<factors[i].id, factors[j].id>>, v)
          /\ Cardinality(DOMAIN Flat(ssim')) <= MaxJudgments
    /\ UNCHANGED <<step, topic, factors, dialog, links, quadrants,
                   suggestion, apiKey, result>>
    /\ UNCHANGED engineVars

\* a call of suggestRelationship(topic, elemA, elemB) for two factors,
\* awaited
Suggest ==
    /\ step = "FILL_SSIM"
    /\ dialog = NoDialog
    /\ Len(factors) >= 2
    /\ \E response \in Responses :
          suggestion' = suggestRelationship(apiKey, response)
    /\ UNCHANGED <<step, topic, factors, dialog, links, quadrants,
                   apiKey, ssim, result>>
    /\ UNCHANGED engineVars

\* onBack of the grid: () => setStep(AppStep.DEFINE_FACTORS); the grid
\* unmounts, and what it awaited with it
onBack ==
    /\ step = "FILL_SSIM"
    /\ dialog = NoDialog
    /\ step' = "DEFINE_FACTORS"
    /\ UNCHANGED <<topic, factors, dialog, links, quadrants,
                   apiKey, ssim, result>>
    /\ suggestion' = NoSuggestion
    /\ UNCHANGED engineVars

\* calculateAndShowResults keeping a result it already has
calculateAndShowResultsStale ==
    /\ step = "FILL_SSIM"
    /\ dialog = NoDialog
    /\ result' = IF result = Null
                 THEN runISMAnalysis(Len(factors), FactorIds(factors), ssim)
                 ELSE result
    /\ step' = "ANALYSIS_RESULT"
    /\ UNCHANGED <<topic, factors, dialog, links, quadrants,
                   apiKey, ssim>>
    /\ suggestion' = NoSuggestion
    /\ UNCHANGED engineVars

\* calculateAndShowResults: onNext of the grid
calculateAndShowResults ==
    /\ step = "FILL_SSIM"
    /\ dialog = NoDialog
    /\ result' = runISMAnalysis(Len(factors), FactorIds(factors), ssim)
    /\ step' = "ANALYSIS_RESULT"
    /\ UNCHANGED <<topic, factors, dialog, links, quadrants,
                   apiKey, ssim>>
    /\ suggestion' = NoSuggestion
    /\ UNCHANGED engineVars

\* the effect of HierarchyGraph, mounted by ResultsView
DrawHierarchy ==
    /\ step = "ANALYSIS_RESULT"
    /\ result # Null
    /\ dialog = NoDialog
    /\ links' = [pushed |-> Links(result)]
    /\ UNCHANGED <<step, topic, factors, dialog, quadrants, suggestion,
                   apiKey, ssim, result>>
    /\ UNCHANGED engineVars

\* the memos of MicmacAnalysis, given the result and the factors
Micmac ==
    /\ step = "ANALYSIS_RESULT"
    /\ result # Null
    /\ dialog = NoDialog
    /\ quadrants' = Quadrants(result, factors)
    /\ UNCHANGED <<step, topic, factors, dialog, links, suggestion,
                   apiKey, ssim, result>>
    /\ UNCHANGED engineVars

\* resetApp up to its call of window.confirm: onReset of ResultsView
resetApp ==
    /\ step = "ANALYSIS_RESULT"
    /\ result # Null
    /\ dialog = NoDialog
    /\ dialog' = [kind |-> "reset", answer |-> "open"]
    /\ UNCHANGED <<step, topic, factors, links, quadrants, suggestion,
                   apiKey, ssim, result>>
    /\ UNCHANGED engineVars

\* resetAppConfirmed without setResult(null)
resetAppConfirmedKeepsResult ==
    /\ dialog.kind = "reset"
    /\ dialog.answer \in {"yes", "no"}
    /\ IF dialog.answer = "yes"
       THEN /\ step' = "SETUP_TOPIC"
            /\ topic' = ""
            /\ factors' = <<>>
            /\ ssim' = <<>>
            /\ result' = result
            /\ links' = Null
            /\ quadrants' = Null
       ELSE UNCHANGED <<step, topic, factors, ssim, result, links, quadrants>>
    /\ dialog' = NoDialog
    /\ UNCHANGED <<suggestion, apiKey>>
    /\ UNCHANGED engineVars

\* resetApp from the return of window.confirm; the reset unmounts the drawings
resetAppConfirmed ==
    /\ dialog.kind = "reset"
    /\ dialog.answer \in {"yes", "no"}
    /\ IF dialog.answer = "yes"
       THEN /\ step' = "SETUP_TOPIC"
            /\ topic' = ""
            /\ factors' = <<>>
            /\ ssim' = <<>>
            /\ result' = Null
            /\ links' = Null
            /\ quadrants' = Null
       ELSE UNCHANGED <<step, topic, factors, ssim, result, links, quadrants>>
    /\ dialog' = NoDialog
    /\ UNCHANGED <<suggestion, apiKey>>
    /\ UNCHANGED engineVars

NextApp ==
    \/ SetTopic
    \/ startProject
    \/ loadSafetyTemplate
    \/ handleAddFactor
    \/ handleDeleteFactor
    \/ saveEdit
    \/ goToSSIM
    \/ setSsim
    \/ Suggest
    \/ onBack
    \/ calculateAndShowResults
    \/ DrawHierarchy
    \/ Micmac
    \/ resetApp
    \/ ConfirmReturns
    \/ resetAppConfirmed

NextResults ==
    \/ DrawHierarchy
    \/ Micmac

SpecApp == InitApp /\ [][NextApp]_vars

SpecResults == InitResults /\ [][NextResults]_vars

----------------------------------------------------------------------------
(* Helpers of the properties *)

\* the elements reachable from the set S along edges of m (paths of
\* length >= 0), by breadth-first search
RECURSIVE ReachFrom(_, _, _)
ReachFrom(m, n, S) ==
    LET T == S \cup {j \in Idx(n) : \E i \in S : m[i][j] = 1}
    IN  IF T = S THEN S ELSE ReachFrom(m, n, T)

\* there is a directed path of length >= 0 from i to j in m
HasPath(m, n, i, j) == j \in ReachFrom(m, n, {i})

\* there is a directed path of length >= 1 from i to j in m
HasEdgePath(m, n, i, j) ==
    \E k \in Idx(n) : m[i][k] = 1 /\ HasPath(m, n, k, j)

\* the invocation has returned
Returned == pc = "done"

\* the encoder has run
Encoded == pc # "convert"

\* the closure has run
Closed == pc \notin {"convert", "closure"}

\* the positions (level number, place) at which index i is listed
Places(lv, i) ==
    {q \in UNION {{<<n, p>> : p \in DOMAIN lv[n].elements} : n \in DOMAIN lv} :
        lv[q[1]].elements[q[2]] = i}

\* the identifier list names each of the n elements once
DistinctIds(n, list) ==
    /\ Len(list) = n
    /\ \A a, b \in DOMAIN list : a # b => list[a] # list[b]

\* two lookups agree on every key pair (ids[i], ids[j]) with i < j
AgreeUpper(n, list, l1, l2) ==
    \A p \in UpperKeys(n, list) :
        StoredAt(l1, p[1], p[2]) = StoredAt(l2, p[1], p[2])

----------------------------------------------------------------------------
(* Properties *)

\* C1: the levels of a returned bundle partition the element indices: every
\* index in [0, N) is listed exactly once over all levels, no other index is
\* listed, and the n-th emitted level carries level number n.
C1_LevelsPartition ==
    Returned =>
        /\ \A n \in DOMAIN result.levels : result.levels[n].level = n
        /\ \A i \in Idx(size) : Cardinality(Places(result.levels, i)) = 1
        /\ \A n \in DOMAIN result.levels :
             \A p \in DOMAIN result.levels[n].elements :
                result.levels[n].elements[p] \in Idx(size)

C1_Witness ==
    /\ Returned
    /\ size = 3
    /\ Len(result.levels) = 2
    /\ Len(result.levels[1].elements) = 2

\* C2: the canonical matrix preserves reachability: whenever FRM[i][j] = 1 for
\* i # j, j is reachable from i along canonical-matrix edges.
C2_CanonicalPreservesReachability ==
    Returned =>
        \A i, j \in Idx(size) :
            (i # j /\ result.finalReachabilityMatrix[i][j] = 1)
                => HasPath(result.canonicalMatrix, size, i, j)

\* C3: the FRM is exactly the transitive closure of the (reflexive) IRM:
\* FRM[i][j] = 1 iff there is a path of IRM edges from i to j.
C3_ClosureExact ==
    Closed =>
        \A i, j \in Idx(size) :
            (frm[i][j] = 1) <=> HasPath(irm, size, i, j)

C3_Witness ==
    /\ Closed
    /\ \E i, j \in Idx(size) : irm[i][j] = 0 /\ frm[i][j] = 1
    /\ \E i, j \in Idx(size) : frm[i][j] = 0

\* C4: the FRM is transitive: FRM[i][k] = 1 and FRM[k][j] = 1 imply
\* FRM[i][j] = 1.
C4_FrmTransitive ==
    Returned =>
        \A i, j, k \in Idx(size) :
            (result.finalReachabilityMatrix[i][k] = 1 /\
             result.finalReachabilityMatrix[k][j] = 1)
                => result.finalReachabilityMatrix[i][j] = 1

C4_Witness ==
    /\ Returned
    /\ \E i, j, k \in Idx(size) :
          /\ i # j /\ j # k /\ i # k
          /\ result.initialReachabilityMatrix[i][k] = 1
          /\ result.initialReachabilityMatrix[k][j] = 1
          /\ result.initialReachabilityMatrix[i][j] = 0
          /\ result.finalReachabilityMatrix[i][j] = 1

\* C5: the FRM contains every IRM edge: IRM[i][j] = 1 implies FRM[i][j] = 1.
C5_FrmContainsIrm ==
    Returned =>
        \A i, j \in Idx(size) :
            result.initialReachabilityMatrix[i][j] = 1
                => result.finalReachabilityMatrix[i][j] = 1

C5_Witness ==
    /\ Returned
    /\ \E i, j \in Idx(size) :
          i # j /\ result.initialReachabilityMatrix[i][j] = 1
    /\ result.finalReachabilityMatrix # result.initialReachabilityMatrix

\* C6: in a returned bundle IRM[i][i] = 1, FRM[i][i] = 1 and
\* canonical[i][i] = 0 for every i in [0, N).
C6_Diagonals ==
    Returned =>
        \A i \in Idx(size) :
            /\ result.initialReachabilityMatrix[i][i] = 1
            /\ result.finalReachabilityMatrix[i][i] = 1
            /\ result.canonicalMatrix[i][i] = 0

C6_Witness ==
    /\ Returned
    /\ size = 3
    /\ \E i, j \in Idx(size) :
          /\ i # j
          /\ result.finalReachabilityMatrix[i][j] = 1
          /\ result.finalReachabilityMatrix[j][i] = 1

\* C7: for every pair i < j the two cells IRM[i][j] and IRM[j][i] are exactly
\* the encoding of the judgment stored under (ids[i], ids[j]): V gives 1 / 0,
\* A gives 0 / 1, X gives 1 / 1, O gives 0 / 0.
C7_EncodingTable ==
    Encoded =>
        \A i, j \in Idx(size) :
            i < j =>
                LET v == StoredAt(ssim, IdAt(ids, i), IdAt(ids, j)) IN
                /\ v = "V" => (irm[i][j] = 1 /\ irm[j][i] = 0)
                /\ v = "A" => (irm[i][j] = 0 /\ irm[j][i] = 1)
                /\ v = "X" => (irm[i][j] = 1 /\ irm[j][i] = 1)
                /\ v = "O" => (irm[i][j] = 0 /\ irm[j][i] = 0)

C7_Witness ==
    /\ Encoded
    /\ size = 3
    /\ StoredAt(ssim, IdAt(ids, 0), IdAt(ids, 1)) = "V"
    /\ StoredAt(ssim, IdAt(ids, 0), IdAt(ids, 2)) = "A"
    /\ StoredAt(ssim, IdAt(ids, 1), IdAt(ids, 2)) = "X"
    /\ irm[0][1] = 1 /\ irm[2][0] = 1 /\ irm[1][2] = 1 /\ irm[2][1] = 1

\* C8: a pair whose judgment is missing (no outer entry, or no inner entry)
\* or is not one of V / A / X is encoded as O: both cells are 0; and the
\* encoder always completes (the run leaves "convert" with an N x N matrix).
C8_MissingIsO ==
    Encoded =>
        /\ DOMAIN irm = Idx(size)
        /\ \A i, j \in Idx(size) :
            (i < j /\ StoredAt(ssim, IdAt(ids, i), IdAt(ids, j))
                          \notin {"V", "A", "X"})
                => (irm[i][j] = 0 /\ irm[j][i] = 0)

C8_Witness ==
    /\ Encoded
    /\ size = 2
    /\ IdAt(ids, 0) \notin DOMAIN ssim
    /\ IdAt(ids, 1) \in DOMAIN ssim
    /\ StoredAt(ssim, IdAt(ids, 1), IdAt(ids, 0)) = "X"
    /\ irm[0][1] = 0 /\ irm[1][0] = 0

\* C9: with one distinct identifier per element, two lookups that agree on
\* every key pair (ids[i], ids[j]) with i < j give the same bundle, however
\* they differ on the other key pairs.
C9_UpperTriangleOnly ==
    (/\ Returned
     /\ lastResult # Null
     /\ DistinctIds(size, ids)
     /\ AgreeUpper(size, ids, lastSsim, ssim))
        => result = lastResult

C9_Witness ==
    /\ Returned
    /\ lastResult # Null
    /\ size = 2
    /\ DistinctIds(size, ids)
    /\ AgreeUpper(size, ids, lastSsim, ssim)
    /\ StoredAt(lastSsim, IdAt(ids, 1), IdAt(ids, 0)) = "absent"
    /\ StoredAt(ssim, IdAt(ids, 1), IdAt(ids, 0)) = "X"
    /\ StoredAt(ssim, IdAt(ids, 0), IdAt(ids, 1)) = "absent"
    /\ result = lastResult

SameLevel(lv, i, j) ==
    {q[1] : q \in Places(lv, i)} = {q[1] : q \in Places(lv, j)}

\* every level listing j has a smaller number than every level listing i
Above(lv, j, i) ==
    \A q \in Places(lv, j) : \A r \in Places(lv, i) : lv[q[1]].level < lv[r[1]].level

\* the run is on n elements and stores judgment v under (ids[i], ids[j])
Judged(i, j, v) == StoredAt(ssim, IdAt(ids, i), IdAt(ids, j)) = v

\* m has no edge between two different elements
NoCrossEdges(m, n) == \A i, j \in Idx(n) : i # j => m[i][j] = 0

\* C11 as stated: for N = 2 with (0,1) = O the IRM and FRM have no
\* off-diagonal edge and there are two levels of one element each.
C11_ScenarioC_TwoLevels ==
    (Returned /\ size = 2 /\ Judged(0, 1, "O")) =>
        /\ NoCrossEdges(result.initialReachabilityMatrix, 2)
        /\ NoCrossEdges(result.finalReachabilityMatrix, 2)
        /\ Len(result.levels) = 2
        /\ \A n \in DOMAIN result.levels : Len(result.levels[n].elements) = 1

\* C11 amended: for N = 2 with (0,1) = O the IRM and FRM have no off-diagonal
\* edge and there is one level, numbered 1, listing both elements: [0, 1].
C11_ScenarioC_OneLevel ==
    (Returned /\ size = 2 /\ Judged(0, 1, "O")) =>
        /\ NoCrossEdges(result.initialReachabilityMatrix, 2)
        /\ NoCrossEdges(result.finalReachabilityMatrix, 2)
        /\ result.levels = <<[level |-> 1, elements |-> <<0, 1>>]>>

C11_Witness ==
    /\ Returned
    /\ size = 2
    /\ Judged(0, 1, "O")
    /\ Len(result.levels) = 1

\* C12: levels are emitted top-first: when i reaches j in the FRM and j does
\* not reach i, j's level number is strictly smaller than i's; and for N = 3
\* with (0,1) = V, (1,2) = V, (0,2) = O the levels are [{2}, {1}, {0}].
C12_TopFirst ==
    Returned =>
        /\ \A i, j \in Idx(size) :
              (/\ i # j
               /\ result.finalReachabilityMatrix[i][j] = 1
               /\ result.finalReachabilityMatrix[j][i] = 0)
                  => Above(result.levels, j, i)
        /\ (size = 3 /\ Judged(0, 1, "V") /\ Judged(1, 2, "V") /\ Judged(0, 2, "O"))
              => result.levels = <<[level |-> 1, elements |-> <<2>>],
                                   [level |-> 2, elements |-> <<1>>],
                                   [level |-> 3, elements |-> <<0>>]>>

C12_Witness ==
    /\ Returned
    /\ size = 3
    /\ Judged(0, 1, "V") /\ Judged(1, 2, "V") /\ Judged(0, 2, "O")
    /\ result.finalReachabilityMatrix[0][2] = 1
    /\ result.finalReachabilityMatrix[2][0] = 0
    /\ Len(result.levels) = 3

\* C13: mutually reachable elements are never separated: FRM[i][j] = 1 and
\* FRM[j][i] = 1 put i and j in the same level; and for N = 2 with (0,1) = X
\* the partition is the single level {0, 1}.
C13_MutualSameLevel ==
    Returned =>
        /\ \A i, j \in Idx(size) :
              (/\ result.finalReachabilityMatrix[i][j] = 1
               /\ result.finalReachabilityMatrix[j][i] = 1)
                  => SameLevel(result.levels, i, j)
        /\ (size = 2 /\ Judged(0, 1, "X"))
              => result.levels = <<[level |-> 1, elements |-> <<0, 1>>]>>

C13_Witness ==
    /\ Returned
    /\ size = 3
    /\ Judged(0, 1, "X")
    /\ Judged(0, 2, "V")
    /\ Len(result.levels) = 2
    /\ result.levels[2].elements = <<0, 1>>

\* C14: the returned bundle is consistent: its FRM is the closure of its IRM,
\* and its canonical matrix and its levels are both what the canonicalizer and
\* the level partitioner compute from that one FRM, so the bundle is the same
\* whichever of the two runs first.
C14_BundleConsistent ==
    Returned =>
        /\ result.finalReachabilityMatrix =
              computeFinalReachabilityMatrix(result.initialReachabilityMatrix)
        /\ result.canonicalMatrix = getCanonicalMatrix(result.finalReachabilityMatrix)
        /\ result.levels = performLevelPartitioning(result.finalReachabilityMatrix)

C14_Witness ==
    /\ Returned
    /\ size = 3
    /\ result.finalReachabilityMatrix # result.initialReachabilityMatrix
    /\ result.canonicalMatrix # getCanonicalMatrix(result.initialReachabilityMatrix)
    /\ Len(result.levels) = 2

\* C16: no operation changes the data it was handed: the encoder leaves the
\* identifier list and the lookup as they were, the closure leaves the IRM as
\* it was (the bundle's IRM is still the encoding of the judgments), and the
\* level partitioner and the canonicalizer leave the FRM as it was.
C16_InputsUnchanged ==
    [][/\ (pc = "convert" => (ids' = ids /\ ssim' = ssim))
       /\ (pc = "closure" => irm' = irm)
       /\ (pc \in {"partition", "while", "canonical"} => frm' = frm)
       /\ (pc' = "done" =>
              result'.initialReachabilityMatrix = convertSSIMToIRM(size', ids', ssim'))]_vars

C16_Witness ==
    /\ Returned
    /\ irm # frm
    /\ irm = convertSSIMToIRM(size, ids, ssim)
    /\ frm = computeFinalReachabilityMatrix(irm)
    /\ result.canonicalMatrix # frm

\* the set of the elements of a list
Range(list) == {list[p] : p \in DOMAIN list}

\* m is an n x n matrix of zeros and ones
IsSquare(m, n) == m \in BinaryMatrices(n)

\* the elements of R that i reaches / that reach i in m
ReachSet(m, R, i) == {j \in R : m[i][j] = 1}
AnteSet(m, R, i) == {j \in R : m[j][i] = 1}

\* the elements of R whose reachability set lies within their antecedent set
SubsetRule(m, R) == {i \in R : ReachSet(m, R, i) \subseteq AnteSet(m, R, i)}

\* the level last pushed
LastLevel(lv) == lv[Len(lv)]

\* C15: when the identifier list is shorter or longer than N the run reports
\* the mismatch and still returns: three N x N matrices and levels covering
\* every index of [0, N) once; a position with no identifier has no edge to or
\* from another position.
C15_MismatchTolerated ==
    (Returned /\ Len(ids) # size) =>
        /\ errorLogged
        /\ IsSquare(result.initialReachabilityMatrix, size)
        /\ IsSquare(result.finalReachabilityMatrix, size)
        /\ IsSquare(result.canonicalMatrix, size)
        /\ \A i \in Idx(size) : Cardinality(Places(result.levels, i)) = 1
        /\ \A i, j \in Idx(size) :
              (i # j /\ (i >= Len(ids) \/ j >= Len(ids)))
                  => result.initialReachabilityMatrix[i][j] = 0

\* C17: a level emitted by the selection rule is exactly the set of remaining
\* elements whose reachability set, restricted to the remaining elements, lies
\* within their antecedent set; and for every matrix of zeros and ones the
\* cardinality test the code makes agrees with that subset test.
C17_SelectionRule ==
    [][(pc = "while" /\ Len(remainingElements) > 0) =>
          /\ \A i \in Range(remainingElements) :
                Qualifies(frm, remainingElements, i)
                    <=> (ReachSet(frm, Range(remainingElements), i)
                            \subseteq AnteSet(frm, Range(remainingElements), i))
          /\ (remainingElements' # remainingElements) =>
                /\ Len(levels') = Len(levels) + 1
                /\ Range(LastLevel(levels').elements)
                      = SubsetRule(frm, Range(remainingElements))]_vars

C17_Witness ==
    /\ pc = "while"
    /\ size = 3
    /\ frm[0][0] = 0
    /\ frm[1][2] = 1 /\ frm[2][0] = 1 /\ frm[1][0] = 0
    /\ Len(levels) = 1
    /\ Len(remainingElements) > 0

\* C18: when no remaining element satisfies the selection rule, all remaining
\* elements are emitted as one final level carrying the next level number and
\* the partitioning stops; otherwise the qualifying elements are emitted as the
\* next level, removed from the remaining set, and the level counter goes up
\* by one.
C18_FallbackOrAdvance ==
    [][(pc = "while" /\ Len(remainingElements) > 0) =>
          LET R == Range(remainingElements)
              Q == SubsetRule(frm, R)
          IN  /\ Len(levels') = Len(levels) + 1
              /\ SubSeq(levels', 1, Len(levels)) = levels
              /\ LastLevel(levels').level = Len(levels) + 1
              /\ IF Q = {}
                 THEN /\ LastLevel(levels').elements = remainingElements
                      /\ pc' # "while"
                 ELSE /\ Range(LastLevel(levels').elements) = Q
                      /\ Range(remainingElements') = R \ Q
                      /\ currentLevel' = currentLevel + 1]_vars

C18_Witness ==
    /\ pc = "canonical"
    /\ size = 3
    /\ Len(remainingElements) = 3
    /\ levels = <<[level |-> 1, elements |-> <<0, 1, 2>>]>>

\* C19: on the FRM the closure produces, partitioning ends after at most N
\* levels and the cap of N + 5 levels is never what ends the loop: the level
\* counter stays within N + 1 and the loop ends with no element remaining.
C19_AtMostNLevels ==
    /\ Closed => (Len(levels) <= size /\ currentLevel <= size + 1)
    /\ (pc = "while" /\ Len(remainingElements) > 0)
          => currentLevel <= MAX_LEVELS(size)
    /\ pc \in {"canonical", "return", "done"} => Len(remainingElements) = 0

C19_Witness ==
    /\ pc = "canonical"
    /\ size = 3
    /\ Len(levels) = 3
    /\ currentLevel = 4
    /\ Len(remainingElements) = 0

\* C20: canonical[i][j] = 1 exactly when i # j, FRM[i][j] = 1 and no k other
\* than i and j has FRM[i][k] = 1 and FRM[k][j] = 1; the test reads the FRM, so
\* the result does not depend on which edges were removed before.
C20_CanonicalCells ==
    pc = "return" =>
        /\ IsSquare(canonicalMatrix, Size(frm))
        /\ \A i, j \in Idx(Size(frm)) :
              canonicalMatrix[i][j] = 1 <=>
                  /\ i # j
                  /\ frm[i][j] = 1
                  /\ ~\E k \in Idx(Size(frm)) \ {i, j} :
                        frm[i][k] = 1 /\ frm[k][j] = 1

C20_Witness ==
    /\ pc = "return"
    /\ size = 3
    /\ frm[0][1] = 1 /\ frm[1][2] = 1 /\ frm[0][2] = 1 /\ frm[2][1] = 1
    /\ canonicalMatrix[0][1] = 0
    /\ canonicalMatrix[0][2] = 0
    /\ canonicalMatrix[1][2] = 1

\* the partitioning loop has ended
Partitioned == pc \in {"canonical", "return", "done"}

\* no two different elements of m reach each other
NoMutualPair(m, n) == \A i, j \in Idx(n) : i # j => ~(m[i][j] = 1 /\ m[j][i] = 1)

\* m without the edge from a to b
WithoutEdge(m, a, b) == [m EXCEPT ![a][b] = 0]

\* the list is in strictly ascending order
Ascending(list) == \A p, q \in DOMAIN list : p < q => list[p] < list[q]

C26_AnyMatrixPartitioned ==
    /\ pc = "while" => (currentLevel <= Size(frm) + 1 /\ Len(levels) <= Size(frm))
    /\ pc = "canonical" =>
          /\ Len(levels) <= Size(frm)
          /\ currentLevel <= MAX_LEVELS(Size(frm))
          /\ \A i \in Idx(Size(frm)) : Cardinality(Places(levels, i)) = 1
          /\ \A n \in DOMAIN levels : Range(levels[n].elements) \subseteq Idx(Size(frm))

C26_Witness ==
    /\ pc = "canonical"
    /\ size = 3
    /\ frm[0][0] = 0
    /\ frm[0][1] = 1 /\ frm[1][2] = 1 /\ frm[0][2] = 0
    /\ Len(levels) = 3

\* C27: in every emitted level, fallback levels included, the element indices
\* are listed in strictly ascending order, whatever the input matrix.
C27_LevelsAscending ==
    \A n \in DOMAIN levels : Ascending(levels[n].elements)

C27_Witness ==
    /\ pc = "canonical"
    /\ size = 3
    /\ Len(remainingElements) = 3
    /\ levels = <<[level |-> 1, elements |-> <<0, 1, 2>>]>>
    /\ frm[0][1] = 1 /\ frm[1][0] = 0

\* C28: when no two different elements of the FRM reach each other, the
\* canonical matrix is an exact transitive reduction: its reflexive-transitive
\* closure is the FRM, and without any one of its edges the closure differs
\* from the FRM.
C28_ExactReduction ==
    (Returned /\ NoMutualPair(result.finalReachabilityMatrix, size)) =>
        /\ \A i, j \in Idx(size) :
              HasPath(result.canonicalMatrix, size, i, j)
                  <=> result.finalReachabilityMatrix[i][j] = 1
        /\ \A a, b \in Idx(size) :
              result.canonicalMatrix[a][b] = 1 =>
                  \E i, j \in Idx(size) :
                      ~(HasPath(WithoutEdge(result.canonicalMatrix, a, b), size, i, j)
                          <=> result.finalReachabilityMatrix[i][j] = 1)

C28_Witness ==
    /\ Returned
    /\ size = 3
    /\ NoMutualPair(result.finalReachabilityMatrix, size)
    /\ result.finalReachabilityMatrix[0][2] = 1
    /\ result.canonicalMatrix[0][2] = 0
    /\ result.canonicalMatrix[0][1] = 1
    /\ result.canonicalMatrix[1][2] = 1

\* the keys, outer and inner, under which the table holds a judgment
KeysOf(lookup) ==
    {q[1] : q \in DOMAIN Flat(lookup)} \cup {q[2] : q \in DOMAIN Flat(lookup)}

\* the ids of the factors of a list
IdsOf(fs) == {fs[p].id : p \in DOMAIN fs}

\* the number of ones in row i / in column i of m
RowOnes(m, i) == Cardinality({j \in DOMAIN m[i] : m[i][j] = 1})
ColumnOnes(m, i) == Cardinality({r \in DOMAIN m : m[r][i] = 1})

\* the quadrants holding a data point for factor position i
QuadrantsOf(q, i) ==
    {name \in DOMAIN q : \E p \in DOMAIN q[name] : q[name][p].index = i}

\* C21 as stated: every link HierarchyGraph draws is an edge of the result's
\* canonical matrix, so no link i -> j is drawn for which a third element k
\* has FRM[i][k] = 1 and FRM[k][j] = 1.
C21_LinksAreCanonical ==
    links # Null =>
        \A l \in links.pushed :
            /\ result.canonicalMatrix[l[1]][l[2]] = 1
            /\ ~\E k \in Idx(Len(factors)) \ {l[1], l[2]} :
                  /\ result.finalReachabilityMatrix[l[1]][k] = 1
                  /\ result.finalReachabilityMatrix[k][l[2]] = 1

\* C22 as stated: when handleDeleteFactor removes a factor, the relation table
\* afterwards holds no judgment keyed by the removed factor's id, in either
\* key position.
C22_DeleteRemovesRelations ==
    [][(step = "DEFINE_FACTORS" /\ Len(factors') < Len(factors)) =>
          (IdsOf(factors) \ IdsOf(factors')) \cap KeysOf(ssim') = {}]_vars

\* C23: resetApp loses the data only on confirmation: when window.confirm
\* returned true the step becomes SETUP_TOPIC and topic, factors, relation
\* table and result are cleared; while the dialog is open and when it returned
\* false, step, topic, factors, relation table and result stay as they are.
C23_ResetOnlyOnConfirm ==
    [][/\ (dialog.kind = "reset" /\ dialog.answer = "yes") =>
              /\ step' = "SETUP_TOPIC"
              /\ topic' = ""
              /\ factors' = <<>>
              /\ ssim' = <<>>
              /\ result' = Null
       /\ ((dialog.kind = "reset" /\ dialog.answer # "yes") \/ dialog' # NoDialog) =>
              UNCHANGED <<step, topic, factors, ssim, result>>]_vars

C23_Witness ==
    /\ dialog.kind = "reset"
    /\ dialog.answer = "yes"
    /\ step = "ANALYSIS_RESULT"
    /\ Len(factors) = 2
    /\ KeysOf(ssim) # {}
    /\ result # Null

\* C24: the driving power of a factor is the sum of its FRM row and its
\* dependence power the sum of its FRM column; with the split at N/2 every
\* factor is in exactly one quadrant: autonomous iff both powers <= N/2,
\* dependent iff driving <= N/2 < dependence, linkage iff both > N/2, driver
\* iff dependence <= N/2 < driving.
C24_Micmac ==
    quadrants # Null =>
        \A i \in Idx(Len(factors)) :
            LET n == Len(factors)
                dr == RowOnes(result.finalReachabilityMatrix, i)
                de == ColumnOnes(result.finalReachabilityMatrix, i)
            IN  /\ Cardinality(QuadrantsOf(quadrants, i)) = 1
                /\ \A name \in DOMAIN quadrants : \A p \in DOMAIN quadrants[name] :
                      quadrants[name][p].index = i =>
                          /\ quadrants[name][p].drivingPower = dr
                          /\ quadrants[name][p].dependencePower = de
                /\ "autonomous" \in QuadrantsOf(quadrants, i) <=> (2 * dr <= n /\ 2 * de <= n)
                /\ "dependent" \in QuadrantsOf(quadrants, i) <=> (2 * dr <= n /\ 2 * de > n)
                /\ "linkage" \in QuadrantsOf(quadrants, i) <=> (2 * dr > n /\ 2 * de > n)
                /\ "driver" \in QuadrantsOf(quadrants, i) <=> (2 * dr > n /\ 2 * de <= n)

C24_Witness ==
    /\ quadrants # Null
    /\ Len(factors) = 2
    /\ Len(quadrants["driver"]) = 1
    /\ quadrants["driver"][1].dependencePower = 1
    /\ Len(quadrants["dependent"]) = 1
    /\ quadrants["dependent"][1].drivingPower = 1

\* C29: whenever the step is ANALYSIS_RESULT the result is not null and is
\* what runISMAnalysis returns for the current factor list and relation table,
\* so its matrices are factors.length x factors.length and every index in its
\* levels is a position in the factor list.
C29_ResultIsCurrent ==
    step = "ANALYSIS_RESULT" =>
        /\ result # Null
        /\ result = runISMAnalysis(Len(factors), FactorIds(factors), ssim)
        /\ IsSquare(result.initialReachabilityMatrix, Len(factors))
        /\ IsSquare(result.finalReachabilityMatrix, Len(factors))
        /\ IsSquare(result.canonicalMatrix, Len(factors))
        /\ \A n \in DOMAIN result.levels :
              Range(result.levels[n].elements) \subseteq Idx(Len(factors))

C29_Witness ==
    /\ step = "ANALYSIS_RESULT"
    /\ Len(factors) = 2
    /\ factors[2].id = "u1"
    /\ KeysOf(ssim) = {"preset-0", "preset-1"}
    /\ result.initialReachabilityMatrix[0][1] = 0
    /\ result.initialReachabilityMatrix[1][0] = 0

\* C30 as stated: the promise suggestRelationship returns never rejects; in
\* every outcome it resolves to a judgment.
C30_SuggestNeverRejects ==
    /\ suggestion.state # "rejected"
    /\ suggestion.state = "resolved" => suggestion.value \in SSIMValue

====
